---- MODULE Spec2Model ----
(***************************************************************************)
(* Transit-scoring engine of src/app.py: get_zodiac_sign (the zodiac       *)
(* mapper), calculate_transits (the 30-day forward scan) and the           *)
(* "Run Analysis" handler that derives the natal index, calls the scan     *)
(* and projects the key events out of the returned frame.                  *)
(*                                                                         *)
(* Representation.  Angles are fixed-point numbers counted in ticks of     *)
(* 1/Res degree (so half degrees for Res = 2); math.degrees only changes   *)
(* the unit, and the ephemeris value is counted in the same ticks.         *)
(* Instants (datetime) are counted in ticks of 1/TicksPerDay day;          *)
(* strftime('%Y/%m/%d') keeps the day and drops the time of day.           *)
(***************************************************************************)
EXTENDS Integers, Sequences, FiniteSets, TLC

VARIABLES pc, entry, start_date, years, moon_hlon, moon_sign, natal_moon_idx,
          now, oracle, current_date, end_date, data, failed_at, df, events

vars == <<pc, entry, start_date, years, moon_hlon, moon_sign, natal_moon_idx,
          now, oracle, current_date, end_date, data, failed_at, df, events>>

----------------------------------------------------------------------------
(* Bounds of the model *)

\* angle ticks per degree
Res == 2
\* clock ticks per day
TicksPerDay == 2
\* largest horizon (years) of the scans of Spec and SpecMapper
HorizonBound == 2
\* the scan starts on one of the days 0..MaxNowDay
MaxNowDay == 1
\* the natal longitude of SpecMapper ranges over -LonTurns..LonTurns+1 turns
LonTurns == 1

(* Program constants *)

FullCircle == 360
SectorWidth == 30
DaysPerYear == 365
StepDays == 30
TrineModulus == 4
ReturnBonus == 2
TrineBonus == 1
MinForecast == 1
MaxForecast == 20

zodiacs == <<"Aries", "Taurus", "Gemini", "Cancer", "Leo", "Virgo",
             "Libra", "Scorpio", "Sagittarius", "Capricorn", "Aquarius", "Pisces">>

GrowthStatus == "Jupiter Return (Growth)"
PressureStatus == "Saturn Return (Pressure)"
NeutralStatus == "Neutral"

\* a name not yet bound (a frame not yet returned, a sign not yet computed)
None == "None"

----------------------------------------------------------------------------
(* get_zodiac_sign *)

\* degrees = math.degrees(lon_radians) % 360 ; Python's % takes the sign of
\* the divisor, so the result is in [0, 360)
NormalizeTrunc(lon) ==
    IF lon >= 0 THEN lon % (FullCircle * Res) ELSE -((-lon) % (FullCircle * Res))

Normalize(lon) == lon % (FullCircle * Res)

\* int(x): truncation toward zero
PyInt(num, den) == IF num >= 0 THEN num \div den ELSE -((-num) \div den)

\* zodiacs[i] with Python's indexing (a negative index counts from the end)
PyIndex(list, i) == IF i < 0 THEN list[Len(list) + i + 1] ELSE list[i + 1]

get_zodiac_sign(lon) ==
    LET degrees == Normalize(lon)
        idx == PyInt(degrees, SectorWidth * Res)
    IN  [sign |-> PyIndex(zodiacs, idx), idx |-> idx]

----------------------------------------------------------------------------
(* the ephemeris oracle: body.compute(date_str); body.hlon *)

DateStr(t) == t \div TicksPerDay

Hlon(orc, body, day) ==
    IF body = "Jupiter" THEN orc.a0 + orc.va * day ELSE orc.b0 + orc.vb * day

----------------------------------------------------------------------------
(* calculate_transits *)

Days(n) == n * TicksPerDay

InitialDateFromBirth(birth, clock) == birth

InitialDateOnePeriodOn(birth, clock) == clock + Days(StepDays)

InitialDate(birth, clock) == clock

EndDate(cur, yrs) == cur + Days(yrs * DaysPerYear)

LoopCondInclusive(cur, end) == cur <= end

LoopCond(cur, end) == cur < end

TransitScoreBothBranches(j_idx, s_idx, natal) ==
    LET s1 == IF j_idx = natal THEN ReturnBonus ELSE 0
        st1 == IF j_idx = natal THEN GrowthStatus ELSE NeutralStatus
        s2 == IF s_idx = natal THEN s1 - ReturnBonus ELSE s1
        st2 == IF s_idx = natal THEN PressureStatus ELSE st1
        s3 == IF (j_idx - natal) % TrineModulus = 0 THEN s2 + TrineBonus ELSE s2
    IN  [score |-> s3, status |-> st2]

TransitScoreTrineInElse(j_idx, s_idx, natal) ==
    IF j_idx = natal THEN [score |-> ReturnBonus, status |-> GrowthStatus]
    ELSE IF s_idx = natal THEN [score |-> -ReturnBonus, status |-> PressureStatus]
    ELSE IF (j_idx - natal) % TrineModulus = 0
         THEN [score |-> TrineBonus, status |-> NeutralStatus]
         ELSE [score |-> 0, status |-> NeutralStatus]

TransitScore(j_idx, s_idx, natal) ==
    LET s1 == IF j_idx = natal THEN ReturnBonus
              ELSE IF s_idx = natal THEN -ReturnBonus ELSE 0
        st == IF j_idx = natal THEN GrowthStatus
              ELSE IF s_idx = natal THEN PressureStatus ELSE NeutralStatus
        s2 == IF (j_idx - natal) % TrineModulus = 0 THEN s1 + TrineBonus ELSE s1
    IN  [score |-> s2, status |-> st]

TransitRecord(orc, cur, natal) ==
    LET j == get_zodiac_sign(Hlon(orc, "Jupiter", DateStr(cur)))
        s == get_zodiac_sign(Hlon(orc, "Saturn", DateStr(cur)))
        r == TransitScore(j.idx, s.idx, natal)
    IN  [Date |-> cur, EnergyScore |-> r.score, JupiterSign |-> j.sign,
         SaturnSign |-> s.sign, Status |-> r.status]

NextDate(cur) == cur + Days(StepDays)

----------------------------------------------------------------------------
(* the handler's projection of the frame *)

RECURSIVE drop_duplicates(_, _)
drop_duplicates(frame, seen) ==
    IF frame = <<>> THEN <<>>
    ELSE IF Head(frame).Status \in seen THEN drop_duplicates(Tail(frame), seen)
    ELSE <<Head(frame)>> \o
         drop_duplicates(Tail(frame), seen \cup {Head(frame).Status})

NonZero(r) == r.EnergyScore # 0

KeyEventsDedupFirst(frame) == SelectSeq(drop_duplicates(frame, {}), NonZero)

KeyEvents(frame) == drop_duplicates(SelectSeq(frame, NonZero), {})

----------------------------------------------------------------------------
(* inputs *)

SectorStarts == {s * SectorWidth * Res : s \in 0..11}

\* natal longitudes of the handler: one per sector, and past both ends
MoonLons == {s * SectorWidth * Res + 1 : s \in -1..12}

\* natal longitudes over whole turns, negative ones included
WideLons == (-LonTurns * FullCircle * Res)..((LonTurns + 1) * FullCircle * Res)

NatalArgs == -1..12

YearArgs == -1..HorizonBound

Nows == {d * TicksPerDay + t : d \in 0..MaxNowDay, t \in {0, TicksPerDay - 1}}

BirthDates == {-Days(3), 0}

Oracles == [a0 : {-1, 0}, va : {Res \div 2}, b0 : SectorStarts, vb : {0}]
           \cup [a0 : {0}, va : {Res}, b0 : {0, 11 * SectorWidth * Res}, vb : {1}]

InitWith(HandlerYears, HandlerLons, DirectYears, DirectNatals, Clocks, Births, Orcs) ==
    /\ pc = "start"
    /\ \/ /\ entry = "handler"
          /\ years \in HandlerYears
          /\ moon_hlon \in HandlerLons
          /\ natal_moon_idx = 0
       \/ /\ entry = "direct"
          /\ years \in DirectYears
          /\ natal_moon_idx \in DirectNatals
          /\ moon_hlon = 0
    /\ start_date \in Births
    /\ now \in Clocks
    /\ oracle \in Orcs
    /\ moon_sign = None
    /\ current_date = 0
    /\ end_date = 0
    /\ data = <<>>
    /\ failed_at = {}
    /\ df = None
    /\ events = None

Init ==
    InitWith(MinForecast..HorizonBound, MoonLons, YearArgs, NatalArgs,
             Nows, BirthDates, Oracles)

----------------------------------------------------------------------------
(* actions *)

\* entry into calculate_transits: lines 123-125
EnterScan ==
    /\ data' = <<>>
    /\ current_date' = InitialDate(start_date, now)
    /\ end_date' = EndDate(InitialDate(start_date, now), years)
    /\ pc' = "scan"

\* "Run Analysis": natal index from the moon's longitude, then the call
RunAnalysis ==
    /\ pc = "start"
    /\ entry = "handler"
    /\ moon_sign' = get_zodiac_sign(moon_hlon).sign
    /\ natal_moon_idx' = get_zodiac_sign(moon_hlon).idx
    /\ EnterScan
    /\ UNCHANGED <<entry, start_date, years, moon_hlon, now, oracle, failed_at,
                   df, events>>

\* calculate_transits called with arguments of the caller's choice
CallScan ==
    /\ pc = "start"
    /\ entry = "direct"
    /\ EnterScan
    /\ UNCHANGED <<entry, start_date, years, moon_hlon, moon_sign, natal_moon_idx,
                   now, oracle, failed_at, df, events>>

\* one iteration of the while loop
ScanStep ==
    /\ pc = "scan"
    /\ LoopCond(current_date, end_date)
    /\ data' = Append(data, TransitRecord(oracle, current_date, natal_moon_idx))
    /\ current_date' = NextDate(current_date)
    /\ UNCHANGED <<pc, entry, start_date, years, moon_hlon, moon_sign,
                   natal_moon_idx, now, oracle, end_date, failed_at, df, events>>

OracleFailSkipsStep ==
    /\ pc = "scan"
    /\ LoopCond(current_date, end_date)
    /\ failed_at' = {current_date}
    /\ current_date' = NextDate(current_date)
    /\ UNCHANGED <<pc, entry, start_date, years, moon_hlon, moon_sign,
                   natal_moon_idx, now, oracle, end_date, data, df, events>>

\* compute() raises inside an iteration: nothing catches it in
\* calculate_transits nor around the call, so the run of the script ends;
\* failed_at keeps the instants at which the oracle raised
OracleFail ==
    /\ pc = "scan"
    /\ LoopCond(current_date, end_date)
    /\ failed_at' = {current_date}
    /\ pc' = "failed"
    /\ UNCHANGED <<entry, start_date, years, moon_hlon, moon_sign, natal_moon_idx,
                   now, oracle, current_date, end_date, data, df, events>>

\* return pd.DataFrame(data)
ScanReturn ==
    /\ pc = "scan"
    /\ ~LoopCond(current_date, end_date)
    /\ df' = data
    /\ pc' = IF entry = "handler" THEN "filter" ELSE "returned"
    /\ UNCHANGED <<entry, start_date, years, moon_hlon, moon_sign, natal_moon_idx,
                   now, oracle, current_date, end_date, data, failed_at, events>>

\* events = df[df["Energy Score"] != 0].drop_duplicates(subset=["Status"])
FilterEvents ==
    /\ pc = "filter"
    /\ events' = KeyEvents(df)
    /\ pc' = "done"
    /\ UNCHANGED <<entry, start_date, years, moon_hlon, moon_sign, natal_moon_idx,
                   now, oracle, current_date, end_date, data, failed_at, df>>

Next ==
    \/ RunAnalysis
    \/ CallScan
    \/ ScanStep
    \/ OracleFail
    \/ ScanReturn
    \/ FilterEvents

Spec == Init /\ [][Next]_vars

SpecHorizon ==
    /\ InitWith(MinForecast..MaxForecast, {1, 3 * SectorWidth * Res}, {1}, {0},
                Nows, {0}, {o \in Oracles : o.b0 \in {0, 11 * SectorWidth * Res}})
    /\ [][Next]_vars

SpecMapper ==
    /\ InitWith({MinForecast}, WideLons, {1}, {0}, {0}, {0},
                {o \in Oracles : o.vb = 1})
    /\ [][Next]_vars

----------------------------------------------------------------------------
(* properties *)

Returned == pc \in {"returned", "filter", "done"}

IdxOf(sign) == CHOOSE i \in 0..11 : zodiacs[i + 1] = sign

Ceil(a, b) == (a + b - 1) \div b

\* C1: every appended record has energyScore = R + T, with R = +2 on a
\* Jupiter return, else -2 on a Saturn return, else 0, and T = +1 when
\* (idxA - n) mod 4 = 0; its status is Growth on a Jupiter return, else
\* Pressure on a Saturn return, else Neutral (natal index n in 0..11).
ScoreIsReturnPlusTrine ==
    \A i \in DOMAIN data :
        LET r == data[i]
            a == IdxOf(r.JupiterSign)
            b == IdxOf(r.SaturnSign)
            n == natal_moon_idx
            R == IF a = n THEN 2 ELSE IF b = n THEN -2 ELSE 0
            T == IF \E k \in -3..3 : a - n = 4 * k THEN 1 ELSE 0
        IN  (pc # "start" /\ n \in 0..11) =>
                /\ r.EnergyScore = R + T
                /\ r.Status = (IF a = n THEN GrowthStatus
                               ELSE IF b = n THEN PressureStatus ELSE NeutralStatus)

\* one scan with a stacked return (+3, Growth) and a bare trine (+1, Neutral)
ScoreCasesSeen ==
    /\ natal_moon_idx = 0
    /\ \E i \in DOMAIN data :
          /\ data[i].JupiterSign = "Aries" /\ data[i].SaturnSign = "Aries"
          /\ data[i].EnergyScore = 3 /\ data[i].Status = GrowthStatus
    /\ \E i \in DOMAIN data :
          /\ data[i].JupiterSign = "Leo"
          /\ data[i].EnergyScore = 1 /\ data[i].Status = NeutralStatus

BothReturnsAtCancer(r) ==
    /\ natal_moon_idx = 3
    /\ r.JupiterSign = "Cancer"
    /\ r.SaturnSign = "Cancer"

\* C2 as stated: with the natal index 3 and both bodies at index 3, the
\* record's status is Growth and its energyScore is +2.
BothReturnsScoreTwo ==
    \A i \in DOMAIN data :
        BothReturnsAtCancer(data[i]) =>
            data[i].Status = GrowthStatus /\ data[i].EnergyScore = 2

\* C2 amended: with the natal index 3 and both bodies at index 3, the
\* Jupiter branch wins: the status is Growth and the energyScore is +3 (the
\* return's +2 and the trine's +1), never the Saturn branch's -2.
BothReturnsJupiterWins ==
    \A i \in DOMAIN data :
        BothReturnsAtCancer(data[i]) =>
            data[i].Status = GrowthStatus /\ data[i].EnergyScore = 3

BothReturnsSeen == \E i \in DOMAIN data : BothReturnsAtCancer(data[i])

\* C3 as stated: with a positive horizon the first record of the returned
\* series is dated one 30-day period after now, and no record is dated now.
FirstRecordOnePeriodAfterNow ==
    (Returned /\ years > 0) =>
        /\ Len(df) >= 1
        /\ df[1].Date = now + Days(30)
        /\ \A i \in DOMAIN df : df[i].Date # now

\* C3 amended: with a positive horizon the first record of the returned
\* series is dated now itself, and the second one 30-day period after now.
FirstRecordAtNow ==
    (Returned /\ years > 0) =>
        /\ Len(df) >= 2
        /\ df[1].Date = now
        /\ df[2].Date = now + Days(30)

PositiveHorizonReturned == Returned /\ years > 0 /\ Len(df) >= 2 /\ now > 0

\* C4: for a horizon in 1..20 the returned series has ceil(years*365/30)
\* records within plus or minus 1, consecutive records are exactly 30 days
\* apart (so the dates strictly increase), and every date is strictly
\* before now + years*365 days.
SeriesShape ==
    (Returned /\ years \in 1..20) =>
        /\ Len(df) \in (Ceil(years * 365, 30) - 1)..(Ceil(years * 365, 30) + 1)
        /\ \A i \in 1..(Len(df) - 1) :
              /\ df[i + 1].Date = df[i].Date + Days(30)
              /\ df[i].Date < df[i + 1].Date
        /\ \A i \in DOMAIN df : df[i].Date < now + Days(years * 365)

\* a 6-year horizon: 2190 days, a whole number of 30-day periods
LongSeriesReturned == Returned /\ years = 6 /\ Len(df) = 73

\* C5: a scan with horizonYears <= 0 never completes successfully.
NonPositiveHorizonRejected == years <= 0 => ~Returned

\* C6: a scan with a natal index outside 0..11 produces no series.
NatalOutOfRangeRejected ==
    (pc # "start" /\ natal_moon_idx \notin 0..11) => (data = <<>> /\ ~Returned)

\* C7: once the oracle has failed at a step, the scan is in its terminal
\* failure: nothing was returned to the caller, no key events exist, the
\* failing step was not passed and no step at or after it left a record.
OracleFailureIsTerminal ==
    failed_at # {} =>
        /\ pc = "failed"
        /\ df = None
        /\ events = None
        /\ failed_at = {current_date}
        /\ \A i \in DOMAIN data : data[i].Date < current_date

FailedAfterSomeRecords == pc = "failed" /\ Len(data) >= 2 /\ df = None

\* C8: the mapper returns index = floor((L mod 360) / 30) with L mod 360 in
\* [0, 360), negatives wrapping forward; the index is in 0..11, the name is
\* the list's entry at that index, L and L mod 360 map alike, and 0 maps to
\* Aries(0), 30 to Taurus(1), 359 to Pisces(11).
MapperIsSectorOfWrappedLongitude ==
    (pc # "start" /\ entry = "handler") =>
        LET L == moon_hlon
            W == SectorWidth * Res
        IN  /\ \E k \in (-LonTurns - 2)..(LonTurns + 2) :
                  LET m == L - k * 360 * Res
                  IN  /\ 0 <= m /\ m < 360 * Res
                      /\ natal_moon_idx * W <= m
                      /\ m < (natal_moon_idx + 1) * W
                      /\ get_zodiac_sign(m).idx = natal_moon_idx
                      /\ get_zodiac_sign(m).sign = moon_sign
            /\ natal_moon_idx \in 0..11
            /\ moon_sign = zodiacs[natal_moon_idx + 1]
            /\ L = 0 => (natal_moon_idx = 0 /\ moon_sign = "Aries")
            /\ L = 30 * Res => (natal_moon_idx = 1 /\ moon_sign = "Taurus")
            /\ L = 359 * Res => (natal_moon_idx = 11 /\ moon_sign = "Pisces")

NegativeLongitudeMapped ==
    pc # "start" /\ entry = "handler" /\ moon_hlon = -1 /\ moon_sign = "Pisces"

\* C9: the returned series is the series of (now, years, natal index,
\* oracle) alone: record i is the oracle's record of the instant
\* now + 30*(i-1) days, for as many periods as start before
\* now + years*365 days, whatever the birth date passed as start_date.
SeriesOfClockAndOracle ==
    Returned =>
        LET count == IF years <= 0 THEN 0 ELSE Ceil(years * 365, 30)
        IN  df = [i \in 1..count |->
                     TransitRecord(oracle, now + Days(30 * (i - 1)), natal_moon_idx)]

ReturnedWithOtherBirthDate ==
    Returned /\ Len(df) > 0 /\ start_date # now /\ start_date < 0

\* C10: the key events are exactly the records with a non-zero score that
\* no earlier non-zero record shares the status of, in the series' order;
\* so at most one per status, at most 3.
KeyEventsAreFirstOccurrences ==
    pc = "done" =>
        LET K == {i \in DOMAIN df :
                     /\ df[i].EnergyScore # 0
                     /\ \A j \in 1..(i - 1) :
                           df[j].EnergyScore # 0 => df[j].Status # df[i].Status}
        IN  /\ Len(events) = Cardinality(K)
            /\ Len(events) <= 3
            /\ \A i \in K : events[Cardinality({j \in K : j <= i})] = df[i]
            /\ \A k \in 1..(Len(events) - 1) : events[k].Date < events[k + 1].Date

ThreeKeyEventsAmongRepeats ==
    /\ pc = "done"
    /\ Len(events) = 3
    /\ Len(SelectSeq(df, NonZero)) > 3
    /\ \E i \in DOMAIN df : df[i].EnergyScore = 0 /\ df[i].Status = NeutralStatus
    /\ df[1].EnergyScore = 0

====
